---- MODULE Spec2Model ----
(***************************************************************************)
(* Model of src/debug_chromadb.py: one run of debug_chromadb() against a   *)
(* vector-database service.  The service's contents are the variable db;   *)
(* every call to the service may raise.  The variable trace is the         *)
(* observable history of the run: the lines printed to standard output and *)
(* the calls made to the client library, in the order they happen.         *)
(***************************************************************************)
EXTENDS Integers, Sequences, FiniteSets, TLC

VARIABLES db, pc, collections, k, count, sample, i, trace, exitStatus

vars == <<db, pc, collections, k, count, sample, i, trace, exitStatus>>

\* ---------------------------------------------------------------- bounds
MaxColl == 2
MaxDocs == 4

\* ------------------------------------------------------ program constants
PreviewLen == 100
GetLimit == 3
SliceLen == 3

\* ------------------------------------------------------------- documents
\* A stored document is described by its length; NoText is a record whose
\* document is None (a record stored without text).
NoText == -1
Dot == 0
Ellipsis == <<Dot, Dot, Dot>>

\* The text of a document of length n: character j is the code j.
DocText(n) == [j \in 1..n |-> j]

\* The Python value of a stored document: None or a string.
DocValue(d) == [isNone |-> d = NoText, text |-> IF d = NoText THEN <<>> ELSE DocText(d)]

\* The kinds of stored document the service may hold.
DocKinds == <<PreviewLen + 1, PreviewLen, 0, 1, NoText>>

\* The documents of a collection: n documents, kinds taken in rotation from s.
MkDocs(n, s) == [j \in 1..n |-> DocKinds[((s + j - 1) % Len(DocKinds)) + 1]]

\* Rotation 0 starts with four texts; rotation 3 is a text followed by None.
TextStart == 0
NoneStart == 3

\* The document lists a collection may hold: none, one, or about MaxDocs
\* documents with text, or a text, a record without text and another text.
DocLists ==
  {MkDocs(n, TextStart) : n \in {0, 1, MaxDocs - 1, MaxDocs}} \cup {MkDocs(3, NoneStart)}

\* A collection of the service at position p of its listing.
MkColl(p, docs) == [name |-> 10 + p, id |-> 20 + p, docs |-> docs]

Databases ==
  UNION {{[p \in 1..n |-> MkColl(p, f[p])] : f \in [1..n -> DocLists]} : n \in 0..MaxColl}

\* ---------------------------------------------------------------- events
PrintEv(kind, c, idx, text) ==
  [ev |-> "print", kind |-> kind, coll |-> c, idx |-> idx, text |-> text, ok |-> TRUE]

CallEv(op, c, arg, ok) ==
  [ev |-> "call", kind |-> op, coll |-> c, idx |-> arg, text |-> <<>>, ok |-> ok]

RaiseEv(c, idx) ==
  [ev |-> "raise", kind |-> "doc", coll |-> c, idx |-> idx, text |-> <<>>, ok |-> FALSE]

NoSample == [documents |-> <<>>, metadatas |-> [isNone |-> TRUE, list |-> <<>>]]

\* ------------------------------------------------------- pure operations
\* doc[:100] + "..." if len(doc) > 100 else doc
PreviewOffByOne(doc) ==
  IF Len(doc) >= PreviewLen THEN SubSeq(doc, 1, PreviewLen) \o Ellipsis ELSE doc

Preview(doc) ==
  IF Len(doc) > PreviewLen THEN SubSeq(doc, 1, PreviewLen) \o Ellipsis ELSE doc

\* sample['documents'][:3]
DocSliceAll(docs) == docs

DocSlice(docs) == SubSeq(docs, 1, IF Len(docs) < SliceLen THEN Len(docs) ELSE SliceLen)

\* truth value of sample['metadatas']
Truthy(m) == ~m.isNone /\ Len(m.list) > 0

\* client.list_collections(): the service's collections, in its order.
ListResponse(d) == [p \in 1..Len(d) |-> [name |-> d[p].name, id |-> d[p].id]]

\* collection.count()
CountResponse(d, c) == Len(d[c].docs)

\* collection.get(limit=..., include=["metadatas","documents"]): the first
\* documents of the collection; a service that ignores the limit returns all.
MetaOpts == {"none", "full", "short"}

GetResponse(d, c, limit, honour, metaOpt) ==
  LET n  == Len(d[c].docs)
      m  == IF honour /\ limit < n THEN limit ELSE n
      ml == IF metaOpt = "full" THEN m ELSE IF metaOpt = "short" THEN m - 1 ELSE 0
  IN [documents |-> [j \in 1..m |-> DocValue(d[c].docs[j])],
      metadatas |-> [isNone |-> metaOpt = "none", list |-> [j \in 1..ml |-> j]]]

\* ------------------------------------------------------------------ Init
Init ==
  /\ db \in Databases
  /\ pc = "main"
  /\ collections = <<>>
  /\ k = 0
  /\ count = 0
  /\ sample = NoSample
  /\ i = 0
  /\ trace = <<>>
  /\ exitStatus = -1

\* --------------------------------------------------------------- actions
\* line 7
Banner ==
  /\ pc = "main"
  /\ trace' = Append(trace, PrintEv("banner", 0, 0, <<>>))
  /\ pc' = "connect"
  /\ UNCHANGED <<db, collections, k, count, sample, i, exitStatus>>

\* line 11
Connect ==
  /\ pc = "connect"
  /\ \E ok \in BOOLEAN :
       /\ trace' = Append(trace, CallEv("HttpClient", 0, 0, ok))
       /\ pc' = IF ok THEN "heartbeat" ELSE "conn_except"
  /\ UNCHANGED <<db, collections, k, count, sample, i, exitStatus>>

\* lines 14-15
HeartbeatOkFirst ==
  /\ pc = "heartbeat"
  /\ \E ok \in BOOLEAN :
       /\ trace' = trace \o <<PrintEv("ok", 0, 0, <<>>), CallEv("heartbeat", 0, 0, ok)>>
       /\ pc' = IF ok THEN "list" ELSE "conn_except"
  /\ UNCHANGED <<db, collections, k, count, sample, i, exitStatus>>

HeartbeatIgnored ==
  /\ pc = "heartbeat"
  /\ \E ok \in BOOLEAN :
       /\ trace' = trace \o (<<CallEv("heartbeat", 0, 0, ok)>>
                             \o IF ok THEN <<PrintEv("ok", 0, 0, <<>>)>> ELSE <<>>)
       /\ pc' = "list"
  /\ UNCHANGED <<db, collections, k, count, sample, i, exitStatus>>

Heartbeat ==
  /\ pc = "heartbeat"
  /\ \E ok \in BOOLEAN :
       /\ trace' = trace \o (<<CallEv("heartbeat", 0, 0, ok)>>
                             \o IF ok THEN <<PrintEv("ok", 0, 0, <<>>)>> ELSE <<>>)
       /\ pc' = IF ok THEN "list" ELSE "conn_except"
  /\ UNCHANGED <<db, collections, k, count, sample, i, exitStatus>>

\* lines 18-19
ListCollections ==
  /\ pc = "list"
  /\ \E ok \in BOOLEAN :
       IF ok
       THEN /\ collections' = ListResponse(db)
            /\ trace' = trace \o <<CallEv("list_collections", 0, 0, TRUE),
                                   PrintEv("found", 0, Len(ListResponse(db)), <<>>)>>
            /\ k' = 1
            /\ pc' = "for"
       ELSE /\ trace' = Append(trace, CallEv("list_collections", 0, 0, FALSE))
            /\ pc' = "conn_except"
            /\ UNCHANGED <<collections, k>>
  /\ UNCHANGED <<db, count, sample, i, exitStatus>>

\* lines 21-24: the next collection of the list, and its header
ForNextNoId ==
  /\ pc = "for"
  /\ k <= Len(collections)
  /\ trace' = trace \o <<PrintEv("name", k, collections[k].name, <<>>),
                         PrintEv("metadata", k, 0, <<>>)>>
  /\ pc' = "count"
  /\ UNCHANGED <<db, collections, k, count, sample, i, exitStatus>>

ForNext ==
  /\ pc = "for"
  /\ k <= Len(collections)
  /\ trace' = trace \o <<PrintEv("name", k, collections[k].name, <<>>),
                         PrintEv("id", k, collections[k].id, <<>>),
                         PrintEv("metadata", k, 0, <<>>)>>
  /\ pc' = "count"
  /\ UNCHANGED <<db, collections, k, count, sample, i, exitStatus>>

\* line 21 exhausted: the function returns and the process exits with 0
ForEnd ==
  /\ pc = "for"
  /\ k > Len(collections)
  /\ exitStatus' = 0
  /\ pc' = "done"
  /\ UNCHANGED <<db, collections, k, count, sample, i, trace>>

\* the events of the run so far that satisfy a description
Calls(op, c) == {j \in DOMAIN trace : trace[j].ev = "call" /\ trace[j].kind = op /\ trace[j].coll = c}

\* lines 28-31
Count ==
  /\ pc = "count"
  /\ \E ok \in BOOLEAN :
       IF ok
       THEN /\ count' = CountResponse(db, k)
            /\ trace' = trace \o <<CallEv("count", k, 0, TRUE),
                                   PrintEv("count", k, CountResponse(db, k), <<>>)>>
            /\ IF CountResponse(db, k) > 0
               THEN pc' = "get" /\ k' = k
               ELSE pc' = "for" /\ k' = k + 1
       ELSE /\ trace' = Append(trace, CallEv("count", k, 0, FALSE))
            /\ pc' = "detail_except"
            /\ UNCHANGED <<count, k>>
  /\ UNCHANGED <<db, collections, sample, i, exitStatus>>

\* lines 33-34
GetDeletes ==
  /\ pc = "get"
  /\ \E ok \in BOOLEAN, honour \in BOOLEAN, metaOpt \in MetaOpts :
       IF ok
       THEN /\ sample' = GetResponse(db, k, GetLimit, honour, metaOpt)
            /\ trace' = trace \o <<CallEv("get", k, GetLimit, TRUE),
                                   CallEv("delete", k, 0, TRUE),
                                   PrintEv("sample", k, 0, <<>>)>>
            /\ db' = [db EXCEPT ![k].docs = <<>>]
            /\ i' = 0
            /\ pc' = "docs"
       ELSE /\ trace' = Append(trace, CallEv("get", k, GetLimit, FALSE))
            /\ pc' = "detail_except"
            /\ UNCHANGED <<db, sample, i>>
  /\ UNCHANGED <<collections, k, count, exitStatus>>

Get ==
  /\ pc = "get"
  /\ \E ok \in BOOLEAN, honour \in BOOLEAN, metaOpt \in MetaOpts :
       IF ok
       THEN /\ sample' = GetResponse(db, k, GetLimit, honour, metaOpt)
            /\ trace' = trace \o <<CallEv("get", k, GetLimit, TRUE),
                                   PrintEv("sample", k, 0, <<>>)>>
            /\ i' = 0
            /\ pc' = "docs"
       ELSE /\ trace' = Append(trace, CallEv("get", k, GetLimit, FALSE))
            /\ pc' = "detail_except"
            /\ UNCHANGED <<sample, i>>
  /\ UNCHANGED <<db, collections, k, count, exitStatus>>

\* lines 35-40: one iteration of the loop over the sample's documents
PrintDocContinue ==
  /\ pc = "docs"
  /\ i < Len(DocSlice(sample.documents))
  /\ LET doc == DocSlice(sample.documents)[i + 1] IN
       IF doc.isNone
       THEN /\ trace' = trace \o <<RaiseEv(k, i), PrintEv("detail_error", k, 0, <<>>)>>
            /\ i' = i + 1
            /\ pc' = "docs"
       ELSE /\ trace' = trace \o <<PrintEv("preview", k, i, Preview(doc.text))>>
                    \o (IF Truthy(sample.metadatas) /\ i < Len(sample.metadatas.list)
                        THEN <<PrintEv("doc_metadata", k, i, <<>>)>> ELSE <<>>)
            /\ i' = i + 1
            /\ pc' = "docs"
  /\ UNCHANGED <<db, collections, k, count, sample, exitStatus>>

PrintDoc ==
  /\ pc = "docs"
  /\ i < Len(DocSlice(sample.documents))
  /\ LET doc == DocSlice(sample.documents)[i + 1] IN
       IF doc.isNone
       THEN /\ trace' = Append(trace, RaiseEv(k, i))
            /\ pc' = "detail_except"
            /\ i' = i
       ELSE /\ trace' = trace \o <<PrintEv("preview", k, i, Preview(doc.text))>>
                    \o (IF Truthy(sample.metadatas) /\ i < Len(sample.metadatas.list)
                        THEN <<PrintEv("doc_metadata", k, i, <<>>)>> ELSE <<>>)
            /\ i' = i + 1
            /\ pc' = "docs"
  /\ UNCHANGED <<db, collections, k, count, sample, exitStatus>>

\* line 35 exhausted: on to the next collection
DocsEnd ==
  /\ pc = "docs"
  /\ i >= Len(DocSlice(sample.documents))
  /\ k' = k + 1
  /\ pc' = "for"
  /\ UNCHANGED <<db, collections, count, sample, i, trace, exitStatus>>

\* lines 42-43
DetailExceptAbort ==
  /\ pc = "detail_except"
  /\ trace' = Append(trace, PrintEv("detail_error", k, 0, <<>>))
  /\ pc' = "conn_except"
  /\ UNCHANGED <<db, collections, k, count, sample, i, exitStatus>>

DetailExceptRetry ==
  /\ pc = "detail_except"
  /\ trace' = Append(trace, PrintEv("detail_error", k, 0, <<>>))
  /\ IF Cardinality(Calls("count", k)) < 2
     THEN pc' = "count" /\ k' = k
     ELSE pc' = "for" /\ k' = k + 1
  /\ UNCHANGED <<db, collections, count, sample, i, exitStatus>>

DetailExcept ==
  /\ pc = "detail_except"
  /\ trace' = Append(trace, PrintEv("detail_error", k, 0, <<>>))
  /\ k' = k + 1
  /\ pc' = "for"
  /\ UNCHANGED <<db, collections, count, sample, i, exitStatus>>

\* lines 45-47
ConnExceptNoExit ==
  /\ pc = "conn_except"
  /\ trace' = Append(trace, PrintEv("conn_error", 0, 0, <<>>))
  /\ exitStatus' = 0
  /\ pc' = "done"
  /\ UNCHANGED <<db, collections, k, count, sample, i>>

ConnExcept ==
  /\ pc = "conn_except"
  /\ trace' = Append(trace, PrintEv("conn_error", 0, 0, <<>>))
  /\ exitStatus' = 1
  /\ pc' = "done"
  /\ UNCHANGED <<db, collections, k, count, sample, i>>

Next ==
  \/ Banner
  \/ Connect
  \/ Heartbeat
  \/ ListCollections
  \/ ForNext
  \/ ForEnd
  \/ Count
  \/ Get
  \/ PrintDoc
  \/ DocsEnd
  \/ DetailExcept
  \/ ConnExcept

Spec == Init /\ [][Next]_vars

\* ------------------------------------------------------------ properties
Prints(kind, c) ==
  {j \in DOMAIN trace : trace[j].ev = "print" /\ trace[j].kind = kind /\ trace[j].coll = c}

Failed(op, c) == \E j \in Calls(op, c) : ~trace[j].ok

Succeeded(op, c) == \E j \in Calls(op, c) : trace[j].ok

\* an exception was raised inside the detail section of collection c
DetailRaised(c) ==
  \/ Failed("count", c)
  \/ Failed("get", c)
  \/ \E j \in DOMAIN trace : trace[j].ev = "raise" /\ trace[j].coll = c

IsPrefix(s, t) == Len(s) <= Len(t) /\ SubSeq(t, 1, Len(s)) = s

\* C1: once the heartbeat call has raised, the '[OK]' line is never printed,
\* list_collections is never called and no collection block is printed; the
\* run is in the outer handler or over, and when it is over the
\* '[ERROR] ChromaDB connection failed' line is printed and the status is 1.
C1_HeartbeatFailure ==
  Failed("heartbeat", 0) =>
    /\ Prints("ok", 0) = {}
    /\ Calls("list_collections", 0) = {}
    /\ \A j \in DOMAIN trace : trace[j].coll = 0
    /\ pc \in {"conn_except", "done"}
    /\ pc = "done" => exitStatus = 1 /\ Prints("conn_error", 0) # {}

C1_Witness == pc = "done" /\ Failed("heartbeat", 0)

\* C2 as stated: a finished run has status 1 exactly when creating the client
\* or the heartbeat call failed.
C2_Original ==
  pc = "done" =>
    (exitStatus = 1 <=> (Failed("HttpClient", 0) \/ Failed("heartbeat", 0)))

\* C2 amended: a finished run has status 1 exactly when creating the client,
\* the heartbeat call or the list_collections call failed, and status 0
\* otherwise, whatever per-collection calls failed.
C2_ExitStatus ==
  pc = "done" =>
    /\ exitStatus \in {0, 1}
    /\ exitStatus = 1 <=> \/ Failed("HttpClient", 0)
                          \/ Failed("heartbeat", 0)
                          \/ Failed("list_collections", 0)

C2_Witness ==
  /\ pc = "done"
  /\ exitStatus = 1
  /\ Succeeded("heartbeat", 0)
  /\ Failed("list_collections", 0)

\* C3: in a finished run over N listed collections, if the detail section of
\* collection c raised, its error line is printed, every later collection has
\* its three header lines printed and its count() called, and the status is 0.
C3_ContinueAfterError ==
  (pc = "done" /\ Succeeded("list_collections", 0)) =>
    \A c \in 1..Len(collections) :
      DetailRaised(c) =>
        /\ Prints("detail_error", c) # {}
        /\ \A c2 \in (c + 1)..Len(collections) :
             /\ Prints("name", c2) # {}
             /\ Prints("id", c2) # {}
             /\ Prints("metadata", c2) # {}
             /\ Calls("count", c2) # {}
        /\ exitStatus = 0

C3_Witness ==
  /\ pc = "done"
  /\ Len(collections) >= 2
  /\ Failed("get", 1)
  /\ Calls("count", 2) # {}

\* C4: in a finished run where list_collections returned the N collections of
\* the service, 'Found N collections' is printed before anything about a
\* collection, and each collection has exactly one header (name, id and
\* metadata lines, consecutive, showing that collection's name and id), the
\* headers being in list order and none for anything else.
C4_NBlocks ==
  (pc = "done" /\ Succeeded("list_collections", 0)) =>
    /\ \E f \in Prints("found", 0) :
         /\ trace[f].idx = Len(db)
         /\ \A j \in DOMAIN trace : trace[j].coll > 0 => j > f
    /\ \A c \in 1..Len(db) :
         \E j \in 1..(Len(trace) - 2) :
           /\ trace[j] = PrintEv("name", c, db[c].name, <<>>)
           /\ trace[j + 1] = PrintEv("id", c, db[c].id, <<>>)
           /\ trace[j + 2] = PrintEv("metadata", c, 0, <<>>)
           /\ Prints("name", c) = {j}
           /\ Prints("id", c) = {j + 1}
           /\ Prints("metadata", c) = {j + 2}
           /\ \A c2 \in (c + 1)..Len(db) : \A j2 \in Prints("name", c2) : j < j2
    /\ \A j \in DOMAIN trace :
         (trace[j].ev = "print" /\ trace[j].kind \in {"name", "id", "metadata"})
           => trace[j].coll \in 1..Len(db)

C4_Witness ==
  /\ pc = "done"
  /\ Succeeded("list_collections", 0)
  /\ Len(db) = 2
  /\ Failed("count", 1)
  /\ Succeeded("get", 2)

\* C5: every preview printed for document idx of collection c is the first
\* 100 characters of the document followed by three dots when the document is
\* longer than 100, and the document itself when its length is at most 100.
C5_Preview ==
  \A j \in DOMAIN trace :
    (trace[j].ev = "print" /\ trace[j].kind = "preview") =>
      LET doc == DocText(db[trace[j].coll].docs[trace[j].idx + 1])
          t   == trace[j].text
      IN /\ Len(doc) > 100 =>
              /\ Len(t) = 103
              /\ \A x \in 1..100 : t[x] = doc[x]
              /\ \A x \in 101..103 : t[x] = Dot
         /\ Len(doc) <= 100 => t = doc

C5_Witness ==
  \E c \in 1..(Len(db) - 1) :
    /\ \E j \in Prints("preview", c) : Len(trace[j].text) = 103
    /\ \E j \in Prints("preview", c) :
         Len(trace[j].text) = 100 /\ db[c].docs[trace[j].idx + 1] = 100
    /\ \E j \in Prints("preview", c) :
         Len(trace[j].text) = 0 /\ db[c].docs[trace[j].idx + 1] = 0
    /\ \E j \in Prints("preview", c + 1) :
         Len(trace[j].text) = 1 /\ db[c + 1].docs[trace[j].idx + 1] = 1

\* C6: no step changes the service's collections or their documents, and the
\* calls made so far are only the client's construction, heartbeat,
\* list_collections, count and get.
C6_ReadOnly ==
  [][/\ db' = db
     /\ \A j \in DOMAIN trace' :
          trace'[j].ev = "call" =>
            trace'[j].kind \in {"HttpClient", "heartbeat", "list_collections", "count", "get"}]_vars

C6_Witness ==
  /\ pc = "done"
  /\ Succeeded("get", 1)
  /\ Failed("count", 2)

\* C7: the client is created at most once, heartbeat and list_collections are
\* called at most once each, and count() and get() at most once for each
\* collection.
C7_NoRetry ==
  /\ Cardinality(Calls("HttpClient", 0)) <= 1
  /\ Cardinality(Calls("heartbeat", 0)) <= 1
  /\ Cardinality(Calls("list_collections", 0)) <= 1
  /\ \A c \in 1..Len(db) :
       /\ Cardinality(Calls("count", c)) <= 1
       /\ Cardinality(Calls("get", c)) <= 1
  /\ \A j \in DOMAIN trace :
       trace[j].ev = "call" =>
         \/ trace[j].coll = 0 /\ trace[j].kind \in {"HttpClient", "heartbeat", "list_collections"}
         \/ trace[j].coll \in 1..Len(db) /\ trace[j].kind \in {"count", "get"}

C7_Witness ==
  /\ pc = "done"
  /\ Failed("count", 1)
  /\ Failed("get", 2)

\* C8: in the history of the run, heartbeat comes after a successful client
\* creation, list_collections after a successful heartbeat, everything about
\* a collection after a successful list_collections; count() of a collection
\* comes after its header lines, get() after its successful count(); and
\* each event is about the same collection as the one before it or a later one.
C8_LinearOrder ==
  LET okAt(op, c) == {j \in Calls(op, c) : trace[j].ok}
      clientAt == okAt("HttpClient", 0)
      beatAt   == okAt("heartbeat", 0)
      listAt   == okAt("list_collections", 0)
  IN \A j \in DOMAIN trace :
       LET e == trace[j] IN
       /\ (e.ev = "call" /\ e.kind = "heartbeat") => \E j0 \in clientAt : j0 < j
       /\ (e.ev = "call" /\ e.kind = "list_collections") => \E j0 \in beatAt : j0 < j
       /\ e.coll > 0 => \E j0 \in listAt : j0 < j
       /\ (e.ev = "call" /\ e.kind = "count") =>
            /\ \E j0 \in Prints("name", e.coll) : j0 < j
            /\ \E j0 \in Prints("id", e.coll) : j0 < j
            /\ \E j0 \in Prints("metadata", e.coll) : j0 < j
       /\ (e.ev = "call" /\ e.kind = "get") => \E j0 \in okAt("count", e.coll) : j0 < j
       /\ j < Len(trace) => trace[j + 1].coll >= e.coll

C8_Witness ==
  /\ pc = "done"
  /\ Len(db) >= 2
  /\ Succeeded("get", 1)
  /\ Succeeded("get", 2)

\* C9: get() of a collection is called with limit 3 and only after its count
\* line showed a value above 0; a collection whose count is 0 has no get()
\* call and no 'Sample documents' line; a collection has at most 3 previews,
\* the n-th of them carrying index n-1 and having the length of the preview
\* of the n-th document (the documents of a collection differ in length).
C9_Sample ==
  \A c \in 1..Len(db) :
    /\ \A j \in Calls("get", c) :
         /\ trace[j].idx = 3
         /\ \E j0 \in Prints("count", c) : j0 < j /\ trace[j0].idx > 0
    /\ (\E j \in Prints("count", c) : trace[j].idx = 0) =>
         Calls("get", c) = {} /\ Prints("sample", c) = {}
    /\ Cardinality(Prints("preview", c)) <= 3
    /\ \A j \in Prints("preview", c) :
         /\ trace[j].idx \in {0, 1, 2}
         /\ trace[j].idx = Cardinality({j0 \in Prints("preview", c) : j0 < j})
         /\ LET d == db[c].docs[trace[j].idx + 1]
            IN Len(trace[j].text) = IF d > 100 THEN 103 ELSE d

C9_Witness ==
  /\ pc = "docs"
  /\ Len(sample.documents) > 3
  /\ i = 3
  /\ Cardinality(Prints("preview", k)) = 3
  /\ \E c \in 1..(k - 1) : \E j \in Prints("count", c) : trace[j].idx = 0

\* C10, state part: a collection has at most one error line and nothing about
\* that collection follows it.
C10_ErrorIsLast ==
  \A c \in 1..Len(db) :
    /\ Cardinality(Prints("detail_error", c)) <= 1
    /\ \A j \in Prints("detail_error", c) :
         \A j2 \in (j + 1)..Len(trace) : trace[j2].coll # c

\* C10: every step keeps what was printed before it, and after every step
\* each collection has at most one error line, which is the last thing about
\* that collection.
C10_ErrorEndsBlock == [][IsPrefix(trace, trace') /\ C10_ErrorIsLast']_vars

C10_Witness ==
  /\ pc = "done"
  /\ \E c \in 1..Len(db) : \E j \in Prints("detail_error", c) :
       /\ trace[j - 1].ev = "raise"
       /\ \E j0 \in Prints("preview", c) : j0 < j
       /\ \E j2 \in (j + 1)..Len(trace) : trace[j2].coll = c + 1
====
